---------------------------- MODULE Spec2Model ----------------------------
(* documentation/set_versions.py: one run of the script that resolves the  *)
(* version of the checkout and renders poky.yaml, switchers.js and         *)
(* releases.rst.                                                           *)
(*                                                                         *)
(* Python strings are sequences of one-character strings, so that          *)
(* startswith, slicing, split, strip, lower and capitalize are computed    *)
(* character by character.  None is the one-element sequence NoneV, which  *)
(* is no Python string of the model.  Lists are sequences; an OrderedDict  *)
(* is a sequence of <<key, value>> pairs in insertion order.               *)
EXTENDS Integers, Sequences, FiniteSets, TLC

(***************************************************************************)
(* Bounds of the model                                                     *)
(***************************************************************************)
\* longest registry (number of entries of releases.json)
MaxReleases == 3
\* largest number of commits a "git log HEAD..origin/b" query reports
MaxCount == 1
\* most lines of poky.yaml.in
MaxLines == 2
\* most tags "git tag --list yocto-*" reports
MaxTags == 3

(***************************************************************************)
(* Python str and list operations                                          *)
(***************************************************************************)
NoneV == <<"<None>">>

Min(a, b) == IF a <= b THEN a ELSE b

\* s.startswith(p)
StartsWith(s, p) == Len(p) <= Len(s) /\ SubSeq(s, 1, Len(p)) = p

\* s[n:]
Drop(s, n) == SubSeq(s, n + 1, Len(s))

\* position of the first occurrence of character c in s, 0 when there is none
RECURSIVE FindFrom(_, _, _)
FindFrom(s, c, i) ==
    IF i > Len(s) THEN 0
    ELSE IF s[i] = c THEN i
    ELSE FindFrom(s, c, i + 1)

\* s.split(c) for a one-character separator c
RECURSIVE Split(_, _)
Split(s, c) ==
    LET i == FindFrom(s, c, 1)
    IN  IF i = 0 THEN <<s>>
        ELSE <<SubSeq(s, 1, i - 1)>> \o Split(Drop(s, i), c)

\* c.join(parts)
RECURSIVE Join(_, _)
Join(parts, c) ==
    IF Len(parts) = 0 THEN <<>>
    ELSE IF Len(parts) = 1 THEN parts[1]
    ELSE parts[1] \o <<c>> \o Join(Tail(parts), c)

\* position of the last occurrence of character c in s, 0 when there is none
RECURSIVE FindLast(_, _, _)
FindLast(s, c, i) ==
    IF i = 0 THEN 0
    ELSE IF s[i] = c THEN i
    ELSE FindLast(s, c, i - 1)

\* s.rsplit(c, 1)
RSplit1(s, c) ==
    LET i == FindLast(s, c, Len(s))
    IN  IF i = 0 THEN <<s>>
        ELSE <<SubSeq(s, 1, i - 1), Drop(s, i)>>

Whitespace == {" ", "\t", "\n", "\r"}

RECURSIVE LStrip(_)
LStrip(s) ==
    IF Len(s) > 0 /\ s[1] \in Whitespace THEN LStrip(Tail(s)) ELSE s

RECURSIVE RStrip(_)
RStrip(s) ==
    IF Len(s) > 0 /\ s[Len(s)] \in Whitespace
    THEN RStrip(SubSeq(s, 1, Len(s) - 1))
    ELSE s

\* s.strip()
Strip(s) == LStrip(RStrip(s))

\* the letters with a case that the registry's codenames use
UpperOf ==
    [c \in {"w", "s", "d", "j"} |->
        CASE c = "w" -> "W" [] c = "s" -> "S" [] c = "d" -> "D" [] c = "j" -> "J"]

LowerOf ==
    [c \in {"W", "S", "D", "J"} |->
        CASE c = "W" -> "w" [] c = "S" -> "s" [] c = "D" -> "d" [] c = "J" -> "j"]

LowerChar(c) == IF c \in DOMAIN LowerOf THEN LowerOf[c] ELSE c

UpperChar(c) == IF c \in DOMAIN UpperOf THEN UpperOf[c] ELSE c

\* s.lower()
Lower(s) == [i \in 1..Len(s) |-> LowerChar(s[i])]

\* s.capitalize()
Capitalize(s) ==
    [i \in 1..Len(s) |-> IF i = 1 THEN UpperChar(s[1]) ELSE LowerChar(s[i])]

\* the elements of a list, as a set
Range(s) == {s[i] : i \in 1..Len(s)}

\* list.index(x): the first position of x, 0 when x is not in the list
\* (Python raises ValueError)
RECURSIVE IndexFrom(_, _, _)
IndexFrom(s, x, i) ==
    IF i > Len(s) THEN 0
    ELSE IF s[i] = x THEN i
    ELSE IndexFrom(s, x, i + 1)

Index(s, x) == IndexFrom(s, x, 1)

\* the list without its element at position i
RemoveAt(s, i) == SubSeq(s, 1, i - 1) \o SubSeq(s, i + 1, Len(s))

\* [x for x in s if x in keep]
RECURSIVE Filter(_, _)
Filter(s, keep) ==
    IF Len(s) = 0 THEN <<>>
    ELSE (IF s[1] \in keep THEN <<s[1]>> ELSE <<>>) \o Filter(Tail(s), keep)

\* OrderedDict: keys in insertion order, membership, d[k], d[k] = v
DictKeys(d) == [i \in 1..Len(d) |-> d[i][1]]

DictHas(d, k) == \E i \in 1..Len(d) : d[i][1] = k

DictGet(d, k) == d[Index(DictKeys(d), k)][2]

DictPut(d, k, v) ==
    IF DictHas(d, k)
    THEN [i \in 1..Len(d) |-> IF d[i][1] = k THEN <<k, v>> ELSE d[i]]
    ELSE Append(d, <<k, v>>)

\* all the sequences over S of length at most n
SeqsUpTo(S, n) == UNION {[1..k -> S] : k \in 0..n}

\* the sub-lists of u (elements kept in u's order) of length 1..n
SubLists(u, n) ==
    {[i \in 1..Len(ix) |-> u[ix[i]]] :
        ix \in {jx \in SeqsUpTo(1..Len(u), n) :
                  /\ Len(jx) >= 1
                  /\ \A i \in 1..(Len(jx) - 1) : jx[i] < jx[i + 1]}}

(***************************************************************************)
(* String constants of the script                                          *)
(***************************************************************************)
YoctoPrefix == <<"y","o","c","t","o","-">>
TipSuffix == <<"-","t","i","p">>
DevV == <<"d","e","v">>
NextV == <<"n","e","x","t">>
Master == <<"m","a","s","t","e","r">>
MasterNext == <<"m","a","s","t","e","r","-","n","e","x","t">>
DunfellName == <<"d","u","n","f","e","l","l">>
JethroName == <<"j","e","t","h","r","o">>
JethroPreName == <<"j","e","t","h","r","o","-","p","r","e">>
WhinlatterName == <<"w","h","i","n","l","a","t","t","e","r">>
ScarthgapName == <<"s","c","a","r","t","h","g","a","p">>

bitbake_mapping ==
    ( <<"w","r","y","n","o","s","e">> :> <<"2",".","1","8">> ) @@
    ( WhinlatterName :> <<"2",".","1","6">> ) @@
    ( <<"w","a","l","n","a","s","c","a","r">> :> <<"2",".","1","2">> ) @@
    ( <<"s","t","y","h","e","a","d">> :> <<"2",".","1","0">> ) @@
    ( ScarthgapName :> <<"2",".","8">> ) @@
    ( <<"n","a","n","b","i","e","l","d">> :> <<"2",".","6">> ) @@
    ( <<"m","i","c","k","l","e","d","o","r","e">> :> <<"2",".","4">> ) @@
    ( <<"l","a","n","g","d","a","l","e">> :> <<"2",".","2">> ) @@
    ( <<"k","i","r","k","s","t","o","n","e">> :> <<"2",".","0">> ) @@
    ( <<"h","o","n","i","s","t","e","r">> :> <<"1",".","5","2">> ) @@
    ( <<"h","a","r","d","k","n","o","t","t">> :> <<"1",".","5","0">> ) @@
    ( <<"g","a","t","e","s","g","a","r","t","h">> :> <<"1",".","4","8">> ) @@
    ( DunfellName :> <<"1",".","4","6">> )

poky_mapping ==
    ( <<"3",".","4">> :> <<"2","6",".","0">> ) @@
    ( <<"3",".","3">> :> <<"2","5",".","0">> ) @@
    ( <<"3",".","2">> :> <<"2","4",".","0">> ) @@
    ( <<"3",".","1">> :> <<"2","3",".","0">> )

(***************************************************************************)
(* releases.json: the registries the run is checked on                     *)
(***************************************************************************)
\* "Active Development" is the status line 42 compares with
ActiveDevelopment == "Active Development"

\* statuses of releases.json; LtsStatuses are those that contain "LTS until"
Statuses == {ActiveDevelopment, "Supported - LTS until April 2028", "EOL"}

LtsStatuses == {"Supported - LTS until April 2028"}

\* "LTS until" in status
HasLtsMarker(status) == status \in LtsStatuses

SeriesFlags == {"current", "previous"}

\* codename and series version of the releases the registries are built from,
\* newest first as in releases.json
ReleaseUniverse ==
    << [release_codename |-> <<"W","h","i","n","l","a","t","t","e","r">>,
        series_version |-> <<"5",".","3">>],
       [release_codename |-> <<"S","c","a","r","t","h","g","a","p">>,
        series_version |-> <<"5",".","0">>],
       [release_codename |-> <<"D","u","n","f","e","l","l">>,
        series_version |-> <<"3",".","1">>],
       [release_codename |-> <<"J","e","t","h","r","o">>,
        series_version |-> <<"2",".","0">>],
       [release_codename |-> <<"J","e","t","h","r","o","-","p","r","e">>,
        series_version |-> <<"1",".","9">>] >>

\* the registries on base (a list of codename/version pairs): every status
\* and series flag, exactly one entry "Active Development"
RegistriesOn(base) ==
    {[i \in 1..Len(base) |->
        [release_codename |-> base[i].release_codename,
         series_version |-> base[i].series_version,
         status |-> st[i],
         series |-> fl[i]]] :
     st \in {s \in [1..Len(base) -> Statuses] :
               Cardinality({i \in 1..Len(base) : s[i] = ActiveDevelopment}) = 1},
     fl \in [1..Len(base) -> SeriesFlags]}

\* registries of at most MaxReleases entries with unique codenames and
\* exactly one "Active Development" entry
Registries ==
    UNION {RegistriesOn(base) : base \in SubLists(ReleaseUniverse, MaxReleases)}

(***************************************************************************)
(* get_releases                                                            *)
(***************************************************************************)
\* the loop of lines 39-47 over the first n entries
RECURSIVE ScanReleases(_, _)
ScanReleases(rel, n) ==
    IF n = 0
    THEN [release_series |-> <<>>, activereleases |-> <<>>,
          devbranch |-> <<>>, ltsseries |-> <<>>]
    ELSE LET acc == ScanReleases(rel, n - 1)
             release == rel[n]
             codename == Lower(release.release_codename)
         IN  [release_series |->
                  DictPut(acc.release_series, codename, release.series_version),
              devbranch |->
                  IF release.status = ActiveDevelopment
                  THEN codename ELSE acc.devbranch,
              activereleases |->
                  IF release.series = "current"
                  THEN Append(acc.activereleases, codename)
                  ELSE acc.activereleases,
              ltsseries |->
                  IF HasLtsMarker(release.status)
                  THEN Append(acc.ltsseries, codename)
                  ELSE acc.ltsseries]

\* list.remove(x) of line 49: the list without its first x; raises ValueError
\* when x is not in the list
RemoveDev(active, dev) == RemoveAt(active, Index(active, dev))

\* get_releases(releases): raised is "ValueError" when line 49 raises
get_releases(rel) ==
    LET acc == ScanReleases(rel, Len(rel))
    IN  IF Index(acc.activereleases, acc.devbranch) = 0
        THEN [acc EXCEPT !.activereleases = <<>>] @@ [raised |-> "ValueError"]
        ELSE [acc EXCEPT !.activereleases =
                  RemoveDev(acc.activereleases, acc.devbranch)]
             @@ [raised |-> ""]

(***************************************************************************)
(* State of one run                                                        *)
(***************************************************************************)
VARIABLES
    \* the invocation and the checkout (never changed by the run)
    argv1,            \* sys.argv[1], NoneV when there is no argument
    inGit,            \* the working directory is inside a git work tree
    tagPresent,       \* "git show yocto-<first active series>" succeeds
    \* lines 53-58
    releases, activereleases, devbranch, ltsseries, release_series,
    \* the process
    pc,               \* position of the script
    exitcode,         \* exit status, -1 while the script is running
    stderr,           \* the sys.exit message or the uncaught exception
    stdout,           \* what line 62 printed
    queries,          \* the git commands run so far
    files,            \* the output files opened for writing so far
    \* lines 94-179
    headtags, ourversion, ourseries, bitbakeversion, branch,
    possible_branch, branch_count, ahead, head_commit, branch_commit,
    is_branch_tip,
    \* lines 181-240
    previousseries, lastlts, latestreltag, latesttag, distro, replacements,
    \* lines 242-350
    yaml_in, poky_yaml, switchers_js, tags, releases_rst

envVars == <<argv1, inGit, tagPresent>>

regVars == <<releases, activereleases, devbranch, ltsseries, release_series>>

procVars == <<pc, exitcode, stderr, stdout, queries, files>>

resVars == <<headtags, ourversion, ourseries, bitbakeversion, branch,
             possible_branch, branch_count, ahead, head_commit, branch_commit,
             is_branch_tip>>

derVars == <<previousseries, lastlts, latestreltag, latesttag, distro,
             replacements>>

outVars == <<yaml_in, poky_yaml, switchers_js, tags, releases_rst>>

vars == <<envVars, regVars, procVars, resVars, derVars, outVars>>

GetLatestArg == <<"g","e","t","l","a","t","e","s","t">>

\* the messages of the two sys.exit calls (lines 106-108 and 114)
NotGitMessage == "Building yocto-docs must be done from its Git repository."

FetchTagsMessage ==
    "Please run 'git fetch --tags' before building the documentation"

\* the names of the git commands the script runs
GitInsideWorkTree == "rev-parse --is-inside-work-tree"
GitShow == "show"
GitTagPointsAt == "tag --points-at HEAD"
GitBranchShowCurrent == "branch --show-current"
GitLog == "log HEAD..origin/<b>"
GitRevParseShort == "rev-parse --short"
GitDescribe == "describe --abbrev=0 --tags --match yocto-*"
GitTagList == "tag --list"

\* the state after line 53 and lines 94-100: nothing loaded, nothing
\* resolved; the invocation and the checkout are any
Init ==
    /\ argv1 \in {NoneV, GetLatestArg}
    /\ inGit \in BOOLEAN
    /\ tagPresent \in BOOLEAN
    /\ tagPresent => inGit
    /\ releases = <<>>
    /\ activereleases = <<>> /\ devbranch = NoneV
    /\ ltsseries = <<>> /\ release_series = <<>>
    /\ pc = "load" /\ exitcode = -1 /\ stderr = "" /\ stdout = <<>>
    /\ queries = {} /\ files = {}
    /\ headtags = <<>>
    /\ ourversion = NoneV /\ ourseries = NoneV /\ bitbakeversion = NoneV
    /\ branch = NoneV /\ possible_branch = NoneV /\ branch_count = 0
    /\ ahead = <<>> /\ head_commit = NoneV /\ branch_commit = NoneV
    /\ is_branch_tip = FALSE
    /\ previousseries = <<>> /\ lastlts = <<>> /\ latestreltag = NoneV
    /\ latesttag = NoneV /\ distro = NoneV /\ replacements = <<>>
    /\ yaml_in = NoneV /\ poky_yaml = NoneV /\ switchers_js = <<>>
    /\ tags = <<>> /\ releases_rst = <<>>

\* the process ends: sys.exit(message) and an uncaught exception both end it
\* with status 1 and text on stderr; sys.exit(0) and the end of the script
\* end it with status 0
Exit(code, message) ==
    /\ pc' = "exit"
    /\ exitcode' = code
    /\ stderr' = message

\* lines 55-58: json.load, then get_releases
ReadRegistry(Regs) ==
    /\ pc = "load"
    /\ \E rel \in Regs :
        LET got == get_releases(rel)
        IN  /\ releases' = rel
            /\ IF got.raised # ""
               THEN /\ Exit(1, got.raised)
                    /\ UNCHANGED <<activereleases, devbranch, ltsseries,
                                   release_series>>
               ELSE /\ activereleases' = got.activereleases
                    /\ devbranch' = got.devbranch
                    /\ ltsseries' = got.ltsseries
                    /\ release_series' = got.release_series
                    /\ pc' = "args"
                    /\ UNCHANGED <<exitcode, stderr>>
    /\ UNCHANGED <<envVars, stdout, queries, files, resVars, derVars, outVars>>

\* lines 61-63: "getlatest" prints activereleases[0] and exits 0;
\* activereleases[0] raises IndexError on an empty list
GetLatest ==
    /\ pc = "args"
    /\ argv1 = GetLatestArg
    /\ IF Len(activereleases) = 0
       THEN Exit(1, "IndexError") /\ UNCHANGED stdout
       ELSE Exit(0, "") /\ stdout' = Append(stdout, activereleases[1])
    /\ UNCHANGED <<envVars, regVars, queries, files, resVars, derVars, outVars>>

\* CheckGit with the failure of the command ignored
CheckGitIgnored ==
    /\ pc = "args"
    /\ argv1 # GetLatestArg
    /\ queries' = queries \cup {GitInsideWorkTree}
    /\ pc' = "check_tags"
    /\ UNCHANGED <<exitcode, stderr>>
    /\ UNCHANGED <<envVars, regVars, stdout, files, resVars, derVars, outVars>>

\* lines 102-108: the run goes on only inside a git work tree
CheckGit ==
    /\ pc = "args"
    /\ argv1 # GetLatestArg
    /\ queries' = queries \cup {GitInsideWorkTree}
    /\ IF inGit
       THEN pc' = "check_tags" /\ UNCHANGED <<exitcode, stderr>>
       ELSE Exit(1, NotGitMessage)
    /\ UNCHANGED <<envVars, regVars, stdout, files, resVars, derVars, outVars>>

\* lines 110-114: the tag of the first active release must be there; the
\* argument release_series[activereleases[0]] is evaluated before git runs
CheckTags ==
    /\ pc = "check_tags"
    /\ IF Len(activereleases) = 0
       THEN Exit(1, "IndexError") /\ UNCHANGED queries
       ELSE /\ queries' = queries \cup {GitShow}
            /\ IF tagPresent
               THEN pc' = "tag_at_head" /\ UNCHANGED <<exitcode, stderr>>
               ELSE Exit(1, FetchTagsMessage)
    /\ UNCHANGED <<envVars, regVars, stdout, files, resVars, derVars, outVars>>

(***************************************************************************)
(* Version resolution, lines 116-179                                       *)
(***************************************************************************)
\* position of the first tag of ts that starts with "yocto-", 0 if none
RECURSIVE FirstYoctoFrom(_, _)
FirstYoctoFrom(ts, i) ==
    IF i > Len(ts) THEN 0
    ELSE IF StartsWith(ts[i], YoctoPrefix) THEN i
    ELSE FirstYoctoFrom(ts, i + 1)

FirstYocto(ts) == FirstYoctoFrom(ts, 1)

\* ".".join(ourversion.split(".")[0:2])
SeriesVersionOf(version) ==
    LET parts == Split(version, ".")
    IN  Join(SubSeq(parts, 1, Min(2, Len(parts))), ".")

\* lines 122-126: the first series of release_series whose version is sv,
\* 0 when there is none
RECURSIVE SeriesWithVersionFrom(_, _, _)
SeriesWithVersionFrom(rs, sv, i) ==
    IF i > Len(rs) THEN 0
    ELSE IF rs[i][2] = sv THEN i
    ELSE SeriesWithVersionFrom(rs, sv, i + 1)

SeriesWithVersion(rs, sv) == SeriesWithVersionFrom(rs, sv, 1)

\* lines 118-127 on the tags ts that point at HEAD: the first "yocto-" tag
\* decides; raised is "KeyError" when bitbake_mapping has no entry
ExactTag(ts, rs) ==
    LET t == FirstYocto(ts)
        version == Drop(ts[t], Len(YoctoPrefix))
        i == SeriesWithVersion(rs, SeriesVersionOf(version))
    IN  IF t = 0
        THEN [ourversion |-> NoneV, ourseries |-> NoneV,
              bitbakeversion |-> NoneV, raised |-> ""]
        ELSE IF i = 0
        THEN [ourversion |-> version, ourseries |-> NoneV,
              bitbakeversion |-> NoneV, raised |-> ""]
        ELSE IF rs[i][1] \notin DOMAIN bitbake_mapping
        THEN [ourversion |-> version, ourseries |-> rs[i][1],
              bitbakeversion |-> NoneV, raised |-> "KeyError"]
        ELSE [ourversion |-> version, ourseries |-> rs[i][1],
              bitbakeversion |-> bitbake_mapping[rs[i][1]], raised |-> ""]

\* lines 117-129: "git tag --points-at HEAD" reports one of HeadTags (the
\* output already split at whitespace)
TagAtHead(HeadTags) ==
    /\ pc = "tag_at_head"
    /\ queries' = queries \cup {GitTagPointsAt}
    /\ \E ts \in HeadTags :
        LET got == ExactTag(ts, release_series)
        IN  /\ headtags' = ts
            /\ ourversion' = got.ourversion
            /\ ourseries' = got.ourseries
            /\ bitbakeversion' = got.bitbakeversion
            /\ IF got.raised # ""
               THEN Exit(1, got.raised)
               ELSE /\ pc' = IF got.ourversion = NoneV
                             THEN "show_branch" ELSE "derive"
                    /\ UNCHANGED <<exitcode, stderr>>
    /\ UNCHANGED <<envVars, regVars, stdout, files, branch, possible_branch,
                   branch_count, ahead, head_commit, branch_commit,
                   is_branch_tip, derVars, outVars>>

\* line 135: the branch is no release branch, master or master-next
UnknownBranch(b, rs) ==
    b = <<>> \/ b \notin (Range(DictKeys(rs)) \cup {Master, MasterNext})

\* lines 131-135: "git branch --show-current" reports one of Branches
ShowBranch(Branches) ==
    /\ pc = "show_branch"
    /\ queries' = queries \cup {GitBranchShowCurrent}
    /\ \E b \in Branches :
        /\ branch' = Strip(b)
        /\ pc' = IF UnknownBranch(Strip(b), release_series)
                 THEN "guess" ELSE "resolve_branch"
    /\ UNCHANGED <<envVars, regVars, exitcode, stderr, stdout, files,
                   headtags, ourversion, ourseries, bitbakeversion,
                   possible_branch, branch_count, ahead, head_commit,
                   branch_commit, is_branch_tip, derVars, outVars>>

\* line 141: itertools.chain(release_series.keys(), ["master"])
Candidates(rs) == Append(DictKeys(rs), Master)

\* "not possible_branch": None and the empty string are false
Falsy(x) == x = NoneV \/ x = <<>>

\* Better with "<=" for "<": a later candidate wins a tie
BetterOrEqual(possible, count, best) == Falsy(possible) \/ count <= best

\* line 147: the candidate replaces the guess
Better(possible, count, best) == Falsy(possible) \/ count < best

\* lines 139-150 after the first n candidates; res[i] is what the query of
\* candidate i returned (count is stdout.count('\n'))
RECURSIVE GuessLoop(_, _, _)
GuessLoop(cands, res, n) ==
    IF n = 0 THEN [possible_branch |-> NoneV, branch_count |-> 0]
    ELSE LET acc == GuessLoop(cands, res, n - 1)
         IN  IF /\ res[n].returncode = 0
                /\ Better(acc.possible_branch, res[n].count, acc.branch_count)
             THEN [possible_branch |-> cands[n], branch_count |-> res[n].count]
             ELSE acc

\* what one "git log --format=oneline HEAD..origin/b" can return
LogResults(maxCount) ==
    {[returncode |-> 128, count |-> 0]} \cup
    {[returncode |-> 0, count |-> n] : n \in 0..maxCount}

\* lines 136-155: one query per candidate, each returning one of Results
Guess(Results) ==
    /\ pc = "guess"
    /\ queries' = queries \cup {GitLog}
    /\ \E res \in [1..Len(Candidates(release_series)) -> Results] :
        LET got == GuessLoop(Candidates(release_series), res, Len(res))
        IN  /\ ahead' = res
            /\ possible_branch' = got.possible_branch
            /\ branch_count' = got.branch_count
            /\ branch' = IF Falsy(got.possible_branch)
                         THEN Master ELSE got.possible_branch
    /\ pc' = "resolve_branch"
    /\ UNCHANGED <<envVars, regVars, exitcode, stderr, stdout, files,
                   headtags, ourversion, ourseries, bitbakeversion,
                   head_commit, branch_commit, is_branch_tip, derVars, outVars>>

\* lines 157-179: the version of the branch; Commits are the outputs
\* "git rev-parse --short HEAD" and "git rev-parse --short <branch>" can
\* give together (the second is empty when git knows no such ref)
ResolveBranch(Commits) ==
    /\ pc = "resolve_branch"
    /\ IF branch \in {Master, MasterNext}
       THEN /\ ourversion' = IF branch = Master THEN DevV ELSE NextV
            /\ ourseries' = devbranch
            /\ bitbakeversion' = IF branch = Master THEN DevV ELSE NextV
            /\ pc' = "derive"
            /\ UNCHANGED <<exitcode, stderr, queries, head_commit,
                           branch_commit, is_branch_tip>>
       ELSE /\ ourseries' = branch
            /\ IF branch \notin DOMAIN bitbake_mapping
                  \/ ~DictHas(release_series, branch)
               THEN /\ Exit(1, "KeyError")
                    /\ UNCHANGED <<ourversion, bitbakeversion, queries,
                                   head_commit, branch_commit, is_branch_tip>>
               ELSE /\ bitbakeversion' = bitbake_mapping[branch]
                    /\ queries' = queries \cup {GitRevParseShort}
                    /\ \E c \in Commits :
                        /\ head_commit' = Strip(c.head)
                        /\ branch_commit' = Strip(c.tip)
                        /\ is_branch_tip' = (Strip(c.head) = Strip(c.tip))
                        /\ ourversion' =
                             DictGet(release_series, branch) \o
                             (IF Strip(c.head) # Strip(c.tip)
                              THEN <<"-">> \o Strip(c.head)
                              ELSE TipSuffix)
                    /\ pc' = "derive"
                    /\ UNCHANGED <<exitcode, stderr>>
    /\ UNCHANGED <<envVars, regVars, stdout, files, headtags, branch,
                   possible_branch, branch_count, ahead, derVars, outVars>>

(***************************************************************************)
(* Derived fields and the replacement table, lines 181-240                 *)
(***************************************************************************)
\* PreviousSeries with the slice starting at the resolved series itself
PreviousSeriesFromResolved(series, i) == SubSeq(series, i, Len(series))

\* line 182: series[series.index(ourseries)+1:] or [""]
PreviousSeries(series, i) ==
    IF SubSeq(series, i + 1, Len(series)) = <<>>
    THEN << <<>> >>
    ELSE SubSeq(series, i + 1, Len(series))

\* line 183: [k for k in previousseries if k in ltsseries] or "dunfell";
\* the value is a list of codenames or the string "dunfell"
LastLts(previous, lts) ==
    IF Filter(previous, Range(lts)) = <<>>
    THEN DunfellName
    ELSE Filter(previous, Range(lts))

\* lastlts[0] of line 228: the first codename of the list, or the first
\* character of the string
LastLtsFirst(previous, lts) ==
    IF Filter(previous, Range(lts)) = <<>>
    THEN <<DunfellName[1]>>
    ELSE Filter(previous, Range(lts))[1]

\* lines 186-194: out is the stripped output of git describe; latesttag
\* stays unbound (NoneV) when out is not empty and has no "yocto-" prefix
LatestTag(out, version) ==
    IF out # <<>>
    THEN [latestreltag |-> out,
          latesttag |-> IF StartsWith(out, YoctoPrefix)
                        THEN Drop(out, Len(YoctoPrefix)) ELSE NoneV]
    ELSE [latestreltag |-> YoctoPrefix \o version, latesttag |-> version]

\* lines 207-217
Distro(version, tip, latest, rs, dev) ==
    IF tip THEN latest
    ELSE IF version \in {DevV, NextV} THEN DictGet(rs, dev)
    ELSE version

K_DISTRO ==
    <<"D","I","S","T","R","O">>

K_DISTRO_LATEST_TAG ==
    <<"D","I","S","T","R","O","_","L","A","T","E","S","T","_","T","A",
      "G">>

K_DISTRO_RELEASE_SERIES ==
    <<"D","I","S","T","R","O","_","R","E","L","E","A","S","E","_","S",
      "E","R","I","E","S">>

K_DISTRO_NAME_NO_CAP ==
    <<"D","I","S","T","R","O","_","N","A","M","E","_","N","O","_","C",
      "A","P">>

K_DISTRO_NAME ==
    <<"D","I","S","T","R","O","_","N","A","M","E">>

K_DISTRO_NAME_NO_CAP_MINUS_ONE ==
    <<"D","I","S","T","R","O","_","N","A","M","E","_","N","O","_","C",
      "A","P","_","M","I","N","U","S","_","O","N","E">>

K_DISTRO_NAME_NO_CAP_LTS ==
    <<"D","I","S","T","R","O","_","N","A","M","E","_","N","O","_","C",
      "A","P","_","L","T","S">>

K_YOCTO_DOC_VERSION ==
    <<"Y","O","C","T","O","_","D","O","C","_","V","E","R","S","I","O",
      "N">>

K_DOCCONF_VERSION ==
    <<"D","O","C","C","O","N","F","_","V","E","R","S","I","O","N">>

K_BITBAKE_SERIES ==
    <<"B","I","T","B","A","K","E","_","S","E","R","I","E","S">>

K_POKYVERSION ==
    <<"P","O","K","Y","V","E","R","S","I","O","N">>

\* lines 221-232
Replacements(dist, latest, rs, series, prev0, lts0, version, bitbake) ==
    << <<K_DISTRO, dist>>,
       <<K_DISTRO_LATEST_TAG, latest>>,
       <<K_DISTRO_RELEASE_SERIES, DictGet(rs, series)>>,
       <<K_DISTRO_NAME_NO_CAP, series>>,
       <<K_DISTRO_NAME, Capitalize(series)>>,
       <<K_DISTRO_NAME_NO_CAP_MINUS_ONE, prev0>>,
       <<K_DISTRO_NAME_NO_CAP_LTS, lts0>>,
       <<K_YOCTO_DOC_VERSION, version>>,
       <<K_DOCCONF_VERSION, version>>,
       <<K_BITBAKE_SERIES, bitbake>> >>

\* lines 235-239; the value is NoneV when line 237 raises IndexError
\* (ourversion has no ".")
PokyVersion(sv, version) ==
    IF version # sv
    THEN IF Len(RSplit1(version, ".")) < 2 THEN NoneV
         ELSE poky_mapping[sv] \o <<".">> \o RSplit1(version, ".")[2]
    ELSE poky_mapping[sv] \o <<".", "0">>

\* lines 181-240: "git describe" prints one of Describes
Derive(Describes) ==
    /\ pc = "derive"
    /\ LET series == DictKeys(release_series)
           i == Index(series, ourseries)
       IN  IF i = 0
           THEN /\ Exit(1, "ValueError")
                /\ UNCHANGED <<queries, derVars>>
           ELSE \E d \in Describes :
                LET prev == PreviousSeries(series, i)
                    lt == LatestTag(Strip(d), ourversion)
                    dist == Distro(ourversion, is_branch_tip, lt.latesttag,
                                   release_series, devbranch)
                    sv == DictGet(release_series, ourseries)
                    table == Replacements(dist, lt.latesttag, release_series,
                                          ourseries, prev[1],
                                          LastLtsFirst(prev, ltsseries),
                                          ourversion, bitbakeversion)
                IN  /\ previousseries' = prev
                    /\ lastlts' = LastLts(prev, ltsseries)
                    /\ queries' = queries \cup {GitDescribe}
                    /\ latestreltag' = lt.latestreltag
                    /\ latesttag' = lt.latesttag
                    /\ IF lt.latesttag = NoneV
                       THEN /\ Exit(1, "NameError")
                            /\ UNCHANGED <<distro, replacements>>
                       ELSE /\ distro' = dist
                            /\ IF sv \notin DOMAIN poky_mapping
                               THEN /\ replacements' = table
                                    /\ pc' = "yaml"
                                    /\ UNCHANGED <<exitcode, stderr>>
                               ELSE IF PokyVersion(sv, ourversion) = NoneV
                               THEN /\ replacements' = table
                                    /\ Exit(1, "IndexError")
                               ELSE /\ replacements' =
                                         Append(table, <<K_POKYVERSION,
                                             PokyVersion(sv, ourversion)>>)
                                    /\ pc' = "yaml"
                                    /\ UNCHANGED <<exitcode, stderr>>
    /\ UNCHANGED <<envVars, regVars, stdout, files, resVars, outVars>>

(***************************************************************************)
(* poky.yaml, lines 242-253                                                *)
(***************************************************************************)
\* r.readlines(): the lines of the text, each with its line end
RECURSIVE Readlines(_)
Readlines(text) ==
    LET i == FindFrom(text, "\n", 1)
    IN  IF text = <<>> THEN <<>>
        ELSE IF i = 0 THEN <<text>>
        ELSE <<SubSeq(text, 1, i)>> \o Readlines(Drop(text, i))

\* LineKey without the strip()
LineKeyUnstripped(line) == Split(line, ":")[1]

\* line 247: the key of a line
LineKey(line) == Strip(Split(line, ":")[1])

\* lines 246-251: what is written for one line
RenderLine(line, table) ==
    IF DictHas(table, LineKey(line))
    THEN LineKey(line) \o <<" ", ":", " ", "\"">>
         \o DictGet(table, LineKey(line)) \o <<"\"", "\n">>
    ELSE line

\* lines 245-251: everything written to poky.yaml
RECURSIVE RenderLines(_, _)
RenderLines(lines, table) ==
    IF Len(lines) = 0 THEN <<>>
    ELSE RenderLine(lines[1], table) \o RenderLines(Tail(lines), table)

\* lines 242-253: poky.yaml.in is one of YamlFiles, NoneV when there is no
\* such file
RenderYaml(YamlFiles) ==
    /\ pc = "yaml"
    /\ \E text \in YamlFiles :
        /\ yaml_in' = text
        /\ IF text = NoneV
           THEN UNCHANGED <<files, poky_yaml>>
           ELSE /\ files' = files \cup {"poky.yaml"}
                /\ poky_yaml' = RenderLines(Readlines(text), replacements)
    /\ pc' = "switchers"
    /\ UNCHANGED <<envVars, regVars, exitcode, stderr, stdout, queries,
                   resVars, derVars, switchers_js, tags, releases_rst>>

(***************************************************************************)
(* switchers.js, lines 282-303                                             *)
(***************************************************************************)
\* Of switchers.js the model keeps the line written for
\* LATEST_VERSION_PLACEHOLDER (lines 297-299); the lines of the other two
\* placeholders (hashes and latest tags per branch) and the copied lines of
\* the template are left out.
RenderSwitchers ==
    /\ pc = "switchers"
    /\ files' = files \cup {"switchers.js"}
    /\ queries' = queries \cup {GitRevParseShort, GitTagList}
    /\ switchers_js' =
         <<DictGet(release_series, activereleases[1]) \o TipSuffix>>
    /\ pc' = "rst"
    /\ UNCHANGED <<envVars, regVars, exitcode, stderr, stdout, resVars,
                   derVars, yaml_in, poky_yaml, tags, releases_rst>>

(***************************************************************************)
(* releases.rst, lines 305-350                                             *)
(***************************************************************************)
\* A line of releases.rst: kind is "rule" (n "=" characters), "heading",
\* "stars" (n "*" characters), "title" (of the section of series text),
\* "bullet" (the documentation link of tag text) or "blank".
RstLine(kind, text, n) == [kind |-> kind, text |-> text, n |-> n]

\* TagMatches on the bare prefix, without the "."
TagMatchesPrefix(tag, sv) == StartsWith(tag, sv)

\* lines 324 and 348: the tag belongs to the series version sv
TagMatches(tag, sv) == tag = sv \/ StartsWith(tag, sv \o <<".">>)

\* lines 323-325 and 347-349: one bullet per matching tag, in tag order
RECURSIVE Bullets(_, _)
Bullets(tagList, sv) ==
    IF Len(tagList) = 0 THEN <<>>
    ELSE (IF TagMatches(tagList[1], sv)
          THEN <<RstLine("bullet", tagList[1], 0)>> ELSE <<>>)
         \o Bullets(Tail(tagList), sv)

\* len("Release Series %s (%s)" % (sv, name))
TitleLen(sv, name) == 15 + Len(sv) + 2 + Len(name) + 1

\* lines 317-321 and 340-344: the title of a section between two rules
SectionHead(sv, name) ==
    << RstLine("stars", <<>>, TitleLen(sv, name)),
       RstLine("title", name, 0),
       RstLine("stars", <<>>, TitleLen(sv, name)),
       RstLine("blank", <<>>, 0) >>

\* lines 316-326
RECURSIVE Supported(_, _, _)
Supported(active, rs, tagList) ==
    IF Len(active) = 0 THEN <<>>
    ELSE SectionHead(DictGet(rs, active[1]), active[1])
         \o Bullets(tagList, DictGet(rs, active[1]))
         \o <<RstLine("blank", <<>>, 0)>>
         \o Supported(Tail(active), rs, tagList)

\* lines 345-346: the section of jethro starts with the 1.9 manual
JethroExtra(series) ==
    IF series = JethroName
    THEN <<RstLine("bullet", <<"1", ".", "9">>, 0)>>
    ELSE <<>>

\* lines 333-350 for the series from position i on
RECURSIVE Outdated(_, _, _, _, _)
Outdated(rs, i, dev, active, tagList) ==
    IF i > Len(rs) THEN <<>>
    ELSE (IF \/ rs[i][1] = dev
             \/ rs[i][1] \in Range(active)
             \/ rs[i][1] = JethroPreName
          THEN <<>>
          ELSE SectionHead(rs[i][2], rs[i][1])
               \o JethroExtra(rs[i][1])
               \o Bullets(tagList, rs[i][2])
               \o <<RstLine("blank", <<>>, 0)>>)
         \o Outdated(rs, i + 1, dev, active, tagList)

SupportedHeading ==
    <<" ","S","u","p","p","o","r","t","e","d"," ","R","e","l","e","a","s","e",
      " ","M","a","n","u","a","l","s">>

OutdatedHeading ==
    <<" ","O","u","t","d","a","t","e","d"," ","R","e","l","e","a","s","e",
      " ","M","a","n","u","a","l","s">>

\* lines 310-350: the whole file
ReleasesRst(rs, dev, active, tagList) ==
    << RstLine("rule", <<>>, 27),
       RstLine("heading", SupportedHeading, 0),
       RstLine("rule", <<>>, 27),
       RstLine("blank", <<>>, 0) >>
    \o Supported(active, rs, tagList)
    \o << RstLine("rule", <<>>, 26),
          RstLine("heading", OutdatedHeading, 0),
          RstLine("rule", <<>>, 26),
          RstLine("blank", <<>>, 0) >>
    \o Outdated(rs, 1, dev, active, tagList)

\* line 308: [tag[6:] for tag in yocto_tags]
StripTags(yocto_tags) ==
    [i \in 1..Len(yocto_tags) |-> Drop(yocto_tags[i], Len(YoctoPrefix))]

\* lines 307-350, then the script ends: "git tag --list
\* --sort=version:refname yocto-*" prints one of TagLists
RenderRst(TagLists) ==
    /\ pc = "rst"
    /\ queries' = queries \cup {GitTagList}
    /\ files' = files \cup {"releases.rst"}
    /\ \E yocto_tags \in TagLists :
        /\ tags' = StripTags(yocto_tags)
        /\ releases_rst' = ReleasesRst(release_series, devbranch,
                                       activereleases, StripTags(yocto_tags))
    /\ Exit(0, "")
    /\ UNCHANGED <<envVars, regVars, stdout, resVars, derVars, yaml_in,
                   poky_yaml, switchers_js>>

(***************************************************************************)
(* The checkouts and files the run is checked on                           *)
(***************************************************************************)
Yocto(version) == YoctoPrefix \o version

\* tags that can point at HEAD: no tag; a foreign tag and a release tag; two
\* release tags; a tag of no known series; a tag of jethro (no bitbake
\* version); a tag of dunfell (a series with a poky version)
HeadTagLists ==
    { <<>>,
      << <<"v","1",".","0">>, Yocto(<<"5",".","3",".","1">>) >>,
      << Yocto(<<"5",".","0">>), Yocto(<<"5",".","3",".","1">>) >>,
      << Yocto(<<"9",".","9">>) >>,
      << Yocto(<<"2",".","0",".","1">>) >>,
      << Yocto(<<"3",".","1",".","5">>) >> }

Line(text) == text \o <<"\n">>

\* what "git branch --show-current" prints: nothing on a detached HEAD,
\* else the branch name
BranchOutputs ==
    { <<>>, Line(Master), Line(MasterNext), Line(WhinlatterName),
      Line(ScarthgapName), Line(DunfellName), Line(JethroName),
      Line(<<"f","e","a","t","u","r","e">>) }

\* HEAD at the tip of the branch, behind it, and a branch git cannot resolve
CommitOutputs ==
    { [head |-> Line(<<"a","1","b","2","c","3","d">>),
       tip |-> Line(<<"a","1","b","2","c","3","d">>)],
      [head |-> Line(<<"a","1","b","2","c","3","d">>),
       tip |-> Line(<<"9","f","8","e","7","d","6">>)],
      [head |-> Line(<<"a","1","b","2","c","3","d">>), tip |-> <<>>] }

\* git describe finds no tag, or finds yocto-5.2.1
DescribeOutputs == { <<>>, Line(Yocto(<<"5",".","2",".","1">>)) }

\* the tags of the repository in the order of --sort=version:refname
TagUniverse ==
    << Yocto(<<"1",".","9">>), Yocto(<<"2",".","0">>),
       Yocto(<<"2",".","0",".","1">>), Yocto(<<"5",".","3">>),
       Yocto(<<"5",".","3",".","1">>), Yocto(<<"5",".","4">>),
       Yocto(<<"5",".","3","0">>) >>

TagLists == {<<>>} \cup SubLists(TagUniverse, MaxTags)

\* pieces of poky.yaml.in: optional indentation, a key or another word, and
\* the rest of the line (the last one has no line end)
YamlWords ==
    { K_DISTRO, K_POKYVERSION, <<"D","I","S","T","R">>, <<>> }

YamlTails ==
    { <<"\n">>, <<" ", ":", " ", "x", "\n">>, <<":", "a", ":", "b">> }

YamlPieces ==
    {pad \o word \o tail :
        pad \in {<<>>, <<" ">>}, word \in YamlWords, tail \in YamlTails}

RECURSIVE Concat(_)
Concat(pieces) ==
    IF Len(pieces) = 0 THEN <<>> ELSE pieces[1] \o Concat(Tail(pieces))

\* poky.yaml.in: no such file, or at most MaxLines pieces
YamlFiles ==
    {NoneV} \cup {Concat(ps) : ps \in SeqsUpTo(YamlPieces, MaxLines)}

\* one small input of each kind, for the steps a specification does not vary
OneTagList == { SubSeq(TagUniverse, 4, 6) }

OneYamlFile ==
    { NoneV,
      Concat(<< K_DISTRO \o <<" ", ":", " ", "x", "\n">>,
                <<"#", " ", "k", ":", "v", "\n">> >>) }

(***************************************************************************)
(* The run                                                                 *)
(***************************************************************************)
Run(Regs, HeadTags, Branches, Results, Commits, Describes, Yamls, Tags) ==
    \/ ReadRegistry(Regs)
    \/ GetLatest
    \/ CheckGit
    \/ CheckTags
    \/ TagAtHead(HeadTags)
    \/ ShowBranch(Branches)
    \/ Guess(Results)
    \/ ResolveBranch(Commits)
    \/ Derive(Describes)
    \/ RenderYaml(Yamls)
    \/ RenderSwitchers
    \/ RenderRst(Tags)

\* every registry, tag at HEAD and branch; the guess, poky.yaml.in and the
\* tag list are varied by SpecGuess, SpecYaml and SpecRst
Next ==
    Run(Registries, HeadTagLists, BranchOutputs, LogResults(0),
        CommitOutputs, DescribeOutputs, OneYamlFile, OneTagList)

Spec == Init /\ [][Next]_vars

\* registries whose first entry is the development release, every entry
\* flagged "current" and every other entry "EOL"
PlainRegistries ==
    {rel \in Registries :
        /\ rel[1].status = ActiveDevelopment
        /\ \A i \in 1..Len(rel) : rel[i].series = "current"
        /\ \A i \in 2..Len(rel) : rel[i].status = "EOL"}

\* HEAD at the tip of the branch
TipCommit ==
    { [head |-> Line(<<"a","1","b","2","c","3","d">>),
       tip |-> Line(<<"a","1","b","2","c","3","d">>)] }

\* the best-guess step on every outcome of the "git log" queries, on a
\* detached HEAD and on a branch that is no release branch
NextGuess ==
    Run(PlainRegistries, {<<>>},
        {<<>>, Line(<<"f","e","a","t","u","r","e">>)},
        LogResults(MaxCount), TipCommit, {<<>>}, {NoneV}, OneTagList)

SpecGuess == Init /\ [][NextGuess]_vars

\* the rendering of poky.yaml on every poky.yaml.in, with the tables of
\* master, of a release branch and of dunfell (which has a POKYVERSION)
NextYaml ==
    Run({rel \in PlainRegistries :
            /\ Len(rel) = 2
            /\ Lower(rel[1].release_codename) = WhinlatterName
            /\ Lower(rel[2].release_codename) = DunfellName},
        {<<>>}, {<<>>, Line(Master), Line(DunfellName)},
        {[returncode |-> 0, count |-> 0]}, TipCommit,
        {Line(Yocto(<<"5",".","2",".","1">>))}, YamlFiles, OneTagList)

SpecYaml == Init /\ [][NextYaml]_vars

\* releases.rst on every registry and every tag list, from a detached HEAD
NextRst ==
    Run(Registries, {<<>>}, {<<>>}, {[returncode |-> 0, count |-> 0]},
        TipCommit, {<<>>}, {NoneV}, TagLists)

SpecRst == Init /\ [][NextRst]_vars

(***************************************************************************)
(* Properties                                                              *)
(***************************************************************************)
\* s.endswith(suffix)
EndsWith(s, suffix) ==
    Len(suffix) <= Len(s) /\ SubSeq(s, Len(s) - Len(suffix) + 1, Len(s)) = suffix

\* the codenames, in lower case and in registry order, of the entries of
\* rel that are flagged "current" and are not the development entry
RECURSIVE CurrentNotDev(_)
CurrentNotDev(rel) ==
    IF Len(rel) = 0 THEN <<>>
    ELSE (IF rel[1].series = "current" /\ rel[1].status # ActiveDevelopment
          THEN <<Lower(rel[1].release_codename)>> ELSE <<>>)
         \o CurrentNotDev(Tail(rel))

\* get_releases raised: the run ended before any git command, and not at
\* the lookup of line 62
LoadFailed == pc = "exit" /\ queries = {} /\ stderr = "ValueError"

\* C1: for every registry with unique codenames and exactly one "Active
\* Development" entry, get_releases returns normally, and its list of active
\* releases holds, once each and in registry order, the entries flagged
\* "current" other than the development entry, whether or not the
\* development entry is flagged "current".
C1_ActiveReleases ==
    releases # <<>> =>
        /\ ~LoadFailed
        /\ activereleases = CurrentNotDev(releases)

\* the text of version up to its second ".", all of it when it has fewer
MajorMinor(version) ==
    LET d1 == FindFrom(version, ".", 1)
        d2 == IF d1 = 0 THEN 0 ELSE FindFrom(version, ".", d1 + 1)
    IN  IF d2 = 0 THEN version ELSE SubSeq(version, 1, d2 - 1)

\* the positions of the "yocto-" tags among the tags at HEAD
YoctoTagsAtHead == {i \in 1..Len(headtags) : StartsWith(headtags[i], YoctoPrefix)}

\* the first "yocto-" tag at HEAD, without its prefix
HeadVersion ==
    Drop(headtags[CHOOSE i \in YoctoTagsAtHead :
                      \A j \in YoctoTagsAtHead : i <= j], 6)

\* the positions in release_series of the series of the tag at HEAD
HeadSeries ==
    {i \in 1..Len(release_series) :
        release_series[i][2] = MajorMinor(HeadVersion)}

FirstHeadSeries ==
    release_series[CHOOSE i \in HeadSeries : \A j \in HeadSeries : i <= j][1]

\* the tags at HEAD were read and one of them starts with "yocto-"
TaggedHead == GitTagPointsAt \in queries /\ YoctoTagsAtHead # {}

\* neither the named-branch path nor the best-guess path has run
NoBranchPath ==
    /\ GitBranchShowCurrent \notin queries
    /\ GitLog \notin queries
    /\ branch = NoneV
    /\ possible_branch = NoneV
    /\ ahead = <<>>

\* C2 as stated: when HEAD carries a "yocto-" tag, the exact-tag path alone
\* completes the resolution with a complete triple: the version is the tag
\* without its prefix, the series is the registry codename whose series
\* version is the tag's major.minor, the tool version is the bitbake
\* mapping entry of that series, and the branch paths never run.
C2_CompleteTriple ==
    TaggedHead =>
        /\ ourversion = HeadVersion
        /\ HeadSeries # {}
        /\ ourseries = FirstHeadSeries
        /\ ourseries \in DOMAIN bitbake_mapping
        /\ bitbakeversion = bitbake_mapping[ourseries]
        /\ NoBranchPath

\* the value the replacement table gives key
Replaced(key) == DictGet(replacements, key)

\* the position of the resolved series in the registry
ResolvedAt == Index(DictKeys(release_series), ourseries)

\* the codenames that follow the resolved series in the registry and are
\* LTS series, as positions
LtsAfterResolved ==
    {i \in (ResolvedAt + 1)..Len(release_series) :
        release_series[i][1] \in Range(ltsseries)}

\* C4: the last-LTS value of the replacement table is the first LTS
\* codename among the registry entries that follow the resolved series,
\* and the whole codename "dunfell" when there is none.
C4_LastLts ==
    replacements # <<>> =>
        Replaced(K_DISTRO_NAME_NO_CAP_LTS) =
            IF LtsAfterResolved = {}
            THEN DunfellName
            ELSE release_series[CHOOSE i \in LtsAfterResolved :
                                   \A j \in LtsAfterResolved : i <= j][1]

\* C5 as stated: the previous-series value of the replacement table is the
\* series immediately before the resolved series in registry order, and the
\* empty string when no series is before it.
C5_PrecedingSeries ==
    replacements # <<>> =>
        Replaced(K_DISTRO_NAME_NO_CAP_MINUS_ONE) =
            IF ResolvedAt > 1
            THEN release_series[ResolvedAt - 1][1]
            ELSE <<>>

\* C5 amended: the previous-series value of the replacement table is the
\* series immediately after the resolved series in registry order (the
\* registry lists the newest release first), and the empty string when the
\* resolved series is the last entry.
C5_FollowingSeries ==
    replacements # <<>> =>
        Replaced(K_DISTRO_NAME_NO_CAP_MINUS_ONE) =
            IF ResolvedAt < Len(release_series)
            THEN release_series[ResolvedAt + 1][1]
            ELSE <<>>

\* the table was built on a series that at least two series follow
C5_Witness ==
    /\ replacements # <<>>
    /\ Len(release_series) > ResolvedAt + 1
    /\ Replaced(K_DISTRO_NAME_NO_CAP_MINUS_ONE) =
           release_series[ResolvedAt + 1][1]

\* the table was built on the last series of the registry
C5_WitnessLast ==
    /\ replacements # <<>>
    /\ ResolvedAt = Len(release_series)
    /\ Replaced(K_DISTRO_NAME_NO_CAP_MINUS_ONE) = <<>>

\* C6: DISTRO is the resolved version, except that at the tip of a series
\* branch it is the latest release tag without "yocto-", and for the
\* versions "dev" and "next" it is the series version of the development
\* entry; DISTRO never ends in "-tip" and never is "dev" or "next".
C6_Distro ==
    distro # NoneV =>
        /\ distro =
             IF is_branch_tip THEN Drop(latestreltag, Len(YoctoPrefix))
             ELSE IF ourversion \in {DevV, NextV}
             THEN DictGet(release_series, devbranch)
             ELSE ourversion
        /\ ~EndsWith(distro, TipSuffix)
        /\ distro \notin {DevV, NextV}

\* C9: with the argument "getlatest" the process prints the first active
\* release and exits with status 0 right after the registry is loaded,
\* with no git command run and no output file written.
C9_GetLatest ==
    (argv1 = GetLatestArg /\ pc = "exit") =>
        /\ exitcode = 0
        /\ CurrentNotDev(releases) # <<>>
        /\ stdout = <<CurrentNotDev(releases)[1]>>
        /\ queries = {}
        /\ files = {}

\* the run has not reached the version resolution and has opened no file
BeforeResolution ==
    /\ pc \in {"load", "args", "check_tags", "exit"}
    /\ GitTagPointsAt \notin queries
    /\ headtags = <<>> /\ ourversion = NoneV
    /\ files = {}

\* C10 as stated: outside a git work tree, or without the tag of the first
\* active release, the run ends in a fatal exit (non-zero status and a
\* message) before the version resolution and before any output file is
\* opened; the checkout is checked first, the tag second.
C10_FatalExit ==
    (pc = "exit" /\ (~inGit \/ ~tagPresent)) =>
        /\ exitcode # 0
        /\ stderr # ""
        /\ BeforeResolution
        /\ ~inGit => GitShow \notin queries

\* C10 amended: on a run whose first argument is not "getlatest", outside a
\* git work tree or without the tag of the first active release, the run
\* never reaches the version resolution and opens no output file, and it
\* ends with a non-zero status and a message; once the registry is loaded
\* the checkout is checked first (its message, and no "git show"), the tag
\* second (the fetch message, when there is a first active release).
C10_FatalExitUnlessGetLatest ==
    (argv1 # GetLatestArg /\ (~inGit \/ ~tagPresent)) =>
        /\ BeforeResolution
        /\ pc = "exit" =>
             /\ exitcode = 1
             /\ stderr # ""
             /\ (~LoadFailed /\ ~inGit) =>
                    (stderr = NotGitMessage /\ queries = {GitInsideWorkTree})
             /\ (~LoadFailed /\ inGit /\ activereleases # <<>>) =>
                    (stderr = FetchTagsMessage
                     /\ queries = {GitInsideWorkTree, GitShow})

\* the run ended at the tag check
C10_Witness ==
    /\ argv1 # GetLatestArg /\ inGit /\ ~tagPresent
    /\ pc = "exit" /\ stderr = FetchTagsMessage

\* the run ended at the checkout check
C10_WitnessNotGit ==
    /\ argv1 # GetLatestArg /\ ~inGit
    /\ pc = "exit" /\ stderr = NotGitMessage

\* the candidates of the best guess: the codenames in registry order, then
\* master
GuessOrder ==
    [i \in 1..(Len(releases) + 1) |->
        IF i <= Len(releases)
        THEN Lower(releases[i].release_codename) ELSE Master]

\* the candidates whose "git log" query succeeded, as positions
Succeeded == {i \in 1..Len(ahead) : ahead[i].returncode = 0}

\* C3: on no known branch the best guess is, among the candidates whose
\* query succeeded, the one with the least count, and among those with the
\* least count the first in the order "registry, then master"; it is
\* master when no query succeeded.
C3_BestGuess ==
    ahead # <<>> =>
        IF Succeeded = {}
        THEN branch = Master
        ELSE \E i \in Succeeded :
                /\ branch = GuessOrder[i]
                /\ \A j \in Succeeded :
                      \/ ahead[i].count < ahead[j].count
                      \/ ahead[i].count = ahead[j].count /\ i <= j

\* counts {seriesA: least, seriesB: least, master: more}: seriesA is chosen
C3_Witness ==
    /\ Len(ahead) = 3
    /\ Succeeded = {1, 2, 3}
    /\ ahead[1].count = ahead[2].count
    /\ ahead[3].count > ahead[1].count
    /\ branch = GuessOrder[1]
    /\ pc = "resolve_branch"

\* no query succeeded and the guess is master
C3_WitnessNone ==
    ahead # <<>> /\ Succeeded = {} /\ branch = Master

\* the text of line before its first ":", trimmed
KeyText(line) ==
    LET c == FindFrom(line, ":", 1)
    IN  Strip(IF c = 0 THEN line ELSE SubSeq(line, 1, c - 1))

\* the line KEY : "VALUE"
Rewritten(key) ==
    key \o <<" ", ":", " ", "\"">> \o Replaced(key) \o <<"\"", "\n">>

\* C7: poky.yaml has one line per line of poky.yaml.in, in the same order;
\* a line is rewritten as KEY : "VALUE" exactly when its text before the
\* first colon, trimmed, is a key of the replacement table, and every other
\* line is written unchanged, whitespace included.
C7_Rendering ==
    poky_yaml # NoneV =>
        LET inl == Readlines(yaml_in)
            outl == Readlines(poky_yaml)
        IN  /\ Len(outl) = Len(inl)
            /\ \A i \in 1..Len(inl) :
                  outl[i] = IF DictHas(replacements, KeyText(inl[i]))
                            THEN Rewritten(KeyText(inl[i]))
                            ELSE inl[i]

\* an indented line with a key is rewritten, and the line after it, whose
\* word is no key, is copied
C7_Witness ==
    /\ poky_yaml # NoneV
    /\ Len(Readlines(yaml_in)) = 2
    /\ Readlines(yaml_in)[1][1] = " "
    /\ Readlines(poky_yaml)[1] = Rewritten(K_DISTRO)
    /\ KeyText(Readlines(yaml_in)[2]) = <<"D","I","S","T","R">>
    /\ Readlines(poky_yaml)[2] = Readlines(yaml_in)[2]

\* the series that have a section in releases.rst
Sections ==
    {releases_rst[i].text :
        i \in {j \in 1..Len(releases_rst) : releases_rst[j].kind = "title"}}

\* the tags of the bullets from line i on, up to the first other line
RECURSIVE BulletRun(_, _)
BulletRun(lines, i) ==
    IF i <= Len(lines) /\ lines[i].kind = "bullet"
    THEN <<lines[i].text>> \o BulletRun(lines, i + 1)
    ELSE <<>>

\* the tags the section of series lists, in the order of the file
SectionTags(series) ==
    BulletRun(releases_rst,
              3 + CHOOSE i \in 1..Len(releases_rst) :
                      /\ releases_rst[i].kind = "title"
                      /\ releases_rst[i].text = series)

\* tag is sv, or sv, a "." and more
OfSeries(tag, sv) ==
    \/ tag = sv
    \/ /\ Len(tag) > Len(sv)
       /\ SubSeq(tag, 1, Len(sv)) = sv
       /\ tag[Len(sv) + 1] = "."

\* the tags of tagList that are of series version sv, in their order
RECURSIVE TagsOfSeries(_, _)
TagsOfSeries(tagList, sv) ==
    IF Len(tagList) = 0 THEN <<>>
    ELSE (IF OfSeries(tagList[1], sv) THEN <<tagList[1]>> ELSE <<>>)
         \o TagsOfSeries(Tail(tagList), sv)

\* C8 as stated: in releases.rst the section of a series lists a tag if
\* and only if the tag is the series version or starts with the series
\* version and a ".".
C8_SectionListsOwnTags ==
    releases_rst # <<>> =>
        \A series \in Sections : \A i \in 1..Len(tags) :
            (tags[i] \in Range(SectionTags(series)))
                <=> OfSeries(tags[i], DictGet(release_series, series))

\* C8 amended: in releases.rst the section of a series lists, in the sorted
\* tag order, the tags that are the series version or start with the
\* series version and a ".", and no other tag; the section of jethro among
\* the outdated manuals lists 1.9 first, before its own tags.
C8_SectionTagsAndJethro ==
    releases_rst # <<>> =>
        \A series \in Sections :
            SectionTags(series) =
                (IF series = JethroName /\ series \notin Range(activereleases)
                 THEN << <<"1", ".", "9">> >> ELSE <<>>)
                \o TagsOfSeries(tags, DictGet(release_series, series))

\* the section of series 5.3 on the tags 5.3, 5.3.1 and 5.30
C8_Witness ==
    /\ releases_rst # <<>>
    /\ tags = << <<"5",".","3">>, <<"5",".","3",".","1">>, <<"5",".","3","0">> >>
    /\ WhinlatterName \in Sections
    /\ SectionTags(WhinlatterName) = << <<"5",".","3">>, <<"5",".","3",".","1">> >>

\* the section of jethro with the 1.9 manual and a tag of its own
C8_WitnessJethro ==
    /\ releases_rst # <<>>
    /\ JethroName \in Sections
    /\ SectionTags(JethroName) = << <<"1",".","9">>, <<"2",".","0",".","1">> >>

=============================================================================
